---- MODULE Spec2Model ----
(***************************************************************************)
(* ClientConnection of mcserver/classes/client_connection.py: the read     *)
(* loop (serve_loop), the write loop (write_loop), the dispatch wrapper    *)
(* (handle_msg), the pending-request registry (_locks, wait_for_packet)    *)
(* and the outbound queue (messages, send_packet).                         *)
(*                                                                         *)
(* Every action is one atomic block of the cooperative scheduler: the code *)
(* between two suspension points (await) of one task.                      *)
(***************************************************************************)
EXTENDS Naturals, Integers, Sequences, FiniteSets, TLC

\* ------------------------------------------------------------------ bounds

\* Longest sequence of framed messages the peer sends on the connection.
MaxMsgs == 3
\* Number of wait_for_packet calls made during the connection.
MaxLocks == 2
\* Number of send_packet calls made during the connection.
MaxSends == 2
\* Number of handle_msg calls in which the handler raises.
MaxFail == 1

\* ------------------------------------------------------- program constants

\* packets.default_protocol_version
default_protocol_version == 1
\* receive_some(1024)
ChunkSize == 1024

\* Bytes are modelled modulo ByteMod.
ByteMod == 8
\* The protocol version every handshake of the peer announces.
PeerVersion == 2
\* The packet ident that no protocol version knows.
BadIdent == 3

\* The value of lock["result"] before a message resolves the waiter.
None == <<-1>>

\* ---------------------------------------------------------- pure functions

Min(a, b) == IF a < b THEN a ELSE b

\* Keystream byte of the stream cipher at position pos (pos >= 1).
Key(pos) == (pos % 3) + 1

\* Cipher.encrypt of bytes bs when n bytes went through the encryptor before.
Encrypt(n, bs) == [k \in 1..Len(bs) |-> (bs[k] + Key(n + k)) % ByteMod]

\* Cipher.decrypt of bytes bs when n bytes went through the decryptor before.
Decrypt(n, bs) == [k \in 1..Len(bs) |-> (bs[k] + ByteMod - Key(n + k)) % ByteMod]

\* One framed message on the wire: length prefix, packet ident, payload.
Encode(m) == <<1 + Len(m.payload), m.ident>> \o m.payload

RECURSIVE EncodeAll(_)
EncodeAll(ms) == IF ms = <<>> THEN <<>> ELSE Encode(Head(ms)) \o EncodeAll(Tail(ms))

\* The name of packet ident under protocol version ver ("" when unknown).
PacketName(ver, ident) ==
    CASE ident = 0 -> "handshake"
      [] ident = 1 -> IF ver = default_protocol_version THEN "login_start"
                                                        ELSE "encryption_response"
      [] ident = 2 -> IF ver = default_protocol_version THEN "encryption_response"
                                                        ELSE "login_start"
      [] OTHER     -> ""

\* ClientMessage(conn, data, protocol_version): parse one framed message from
\* the head of buf. kind is "underrun" (BufferUnderrun), "malformed" (any
\* other exception) or "ok"; old_len is the number of bytes consumed.
ClientMessage(buf, ver) ==
    IF Len(buf) = 0 \/ Len(buf) < 1 + buf[1]
    THEN [kind |-> "underrun", ident |-> 0, name |-> "", buffer |-> <<>>,
          old_len |-> 0, ver |-> ver]
    ELSE IF buf[1] = 0 \/ PacketName(ver, buf[2]) = ""
    THEN [kind |-> "malformed", ident |-> 0, name |-> "", buffer |-> <<>>,
          old_len |-> 0, ver |-> ver]
    ELSE [kind |-> "ok", ident |-> buf[2], name |-> PacketName(ver, buf[2]),
          buffer |-> SubSeq(buf, 3, 1 + buf[1]), old_len |-> 1 + buf[1],
          ver |-> ver]

\* Advance keeping the last byte of the message consumed.
AdvanceShort(buf, n) == SubSeq(buf, n, Len(buf))

\* data[msg.old_len:]
Advance(buf, n) == SubSeq(buf, n + 1, Len(buf))

\* ------------------------------------------------------------------ inputs

\* The k-th message of the peer: a handshake announces PeerVersion, any other
\* message carries its position as its payload.
PeerMsg(ident, k) ==
    [ident |-> ident, payload |-> IF ident = 0 THEN <<PeerVersion>> ELSE <<3 + k>>]

\* The message sequences of the peer: up to MaxMsgs messages, each valid or
\* of unknown ident.
PeerSeqs ==
    UNION {{[k \in 1..n |-> PeerMsg(f[k], k)] : f \in [1..n -> (0..2) \cup {BadIdent}]}
           : n \in 0..MaxMsgs}

\* ------------------------------------------------------------------- state

VARIABLES
    sent,              \* the messages the peer writes to the stream, in order
    rpos,              \* number of wire bytes receive_some has returned so far
    cipher,            \* self.cipher: bytes decrypted (dec), encrypted (enc)
    data,              \* serve_loop: the accumulation buffer
    run_again,         \* serve_loop: skip the next receive
    msg,               \* serve_loop: the message parsed last
    i,                 \* serve_loop: position of the sweep at line 109
    pcRead,            \* serve_loop: where the task is suspended
    do_loop,           \* self.do_loop
    protocol_state,    \* self.protocol_state
    protocol_version,  \* self.protocol_version
    messages,          \* self.messages: the outbound queue
    _locks,            \* self._locks: the registry, lock ids in list order
    lockTab,           \* every lock dict wait_for_packet created, by id
    tasks,             \* the handle_msg call of each dispatched message
    failed,            \* the handle_msg calls that caught an exception
    pcWrite,           \* write_loop: where the task is suspended
    out,               \* write_loop: the buffer popped last
    cancelled,         \* the task group of serve was cancelled
    players,           \* the player of this connection is in PlayerRegistry
    framed,            \* history: the messages ClientMessage returned
    dispatched,        \* history: the messages passed to handle_msg
    enqueued,          \* history: the buffers send_packet appended
    transmitted,       \* history: the buffers send_all completed
    atClose            \* history: the registry when the peer close was seen

vars == <<sent, rpos, cipher, data, run_again, msg, i, pcRead, do_loop,
          protocol_state, protocol_version, messages, _locks, lockTab, tasks,
          failed, pcWrite, out, cancelled, players, framed, dispatched,
          enqueued, transmitted, atClose>>

readVars  == <<data, run_again, msg, i, pcRead, do_loop>>
peerVars  == <<sent, rpos>>
writeVars == <<pcWrite, out, transmitted>>
connVars  == <<protocol_state, protocol_version, players>>
histVars  == <<framed, dispatched, atClose>>

\* The bytes the peer writes: its messages framed and encrypted with the
\* keystream the connection decrypts with.
Wire == Encrypt(0, EncodeAll(sent))

NoMsg == [kind |-> "none", ident |-> 0, name |-> "", buffer |-> <<>>,
          old_len |-> 0, ver |-> 0, idx |-> 0, hit |-> 0]

NoTask == [pc |-> "none", lock |-> 0, setVer |-> 0]

\* __init__, and serve having spawned both loops.
Init ==
    /\ sent \in PeerSeqs
    /\ rpos = 0
    /\ cipher = [dec |-> 0, enc |-> 0]
    /\ data = <<>>
    /\ run_again = FALSE
    /\ msg = NoMsg
    /\ i = 0
    /\ pcRead = "recv"
    /\ do_loop = TRUE
    /\ protocol_state = "init"
    /\ protocol_version = default_protocol_version
    /\ messages = <<>>
    /\ _locks = <<>>
    /\ lockTab = <<>>
    /\ tasks = [t \in 1..MaxMsgs |-> NoTask]
    /\ failed = {}
    /\ pcWrite = "loop"
    /\ out = <<>>
    /\ cancelled = FALSE
    /\ players = FALSE
    /\ framed = <<>>
    /\ dispatched = <<>>
    /\ enqueued = <<>>
    /\ transmitted = <<>>
    /\ atClose = {}

\* ---------------------------------------------------------------- registry

\* await lock["lock"].set()
SetEvent(tab, w) == [tab EXCEPT ![w].lock = TRUE, ![w].sets = @ + 1]

\* FirstMatch taking the lock registered last.
LastMatch(reg, tab, name) ==
    LET hits == {k \in 1..Len(reg) : tab[reg[k]].name = name}
    IN  IF hits = {} THEN 0 ELSE CHOOSE k \in hits : \A j \in hits : k >= j

\* Position in the registry reg of the first lock named name (0 when none):
\* the scan of lines 97-98.
FirstMatch(reg, tab, name) ==
    LET hits == {k \in 1..Len(reg) : tab[reg[k]].name = name}
    IN  IF hits = {} THEN 0 ELSE CHOOSE k \in hits : \A j \in hits : k <= j

\* self._locks.remove(lock)
Remove(reg, k) == SubSeq(reg, 1, k - 1) \o SubSeq(reg, k + 1, Len(reg))

\* Resolve without the break of line 102: every lock of that name is resolved.
ResolveAll(reg, tab, m, index) ==
    LET ks == {k \in 1..Len(reg) : tab[reg[k]].name = m.name}
        ws == {reg[k] : k \in ks}
    IN  IF ks = {}
        THEN [reg |-> reg, tab |-> tab, hit |-> 0]
        ELSE [reg |-> SelectSeq(reg, LAMBDA w : w \notin ws),
              tab |-> [w \in 1..Len(tab) |->
                         IF w \in ws
                         THEN [tab[w] EXCEPT !.result = m.buffer, !.by = index,
                                             !.lock = TRUE, !.sets = @ + 1]
                         ELSE tab[w]],
              hit |-> reg[CHOOSE k \in ks : \A j \in ks : k <= j]]

\* Resolve without the remove of line 99: the lock stays in the registry.
ResolveKeep(reg, tab, m, index) ==
    LET k == FirstMatch(reg, tab, m.name)
    IN  IF k = 0
        THEN [reg |-> reg, tab |-> tab, hit |-> 0]
        ELSE [reg |-> reg,
              tab |-> SetEvent([tab EXCEPT ![reg[k]].result = m.buffer,
                                           ![reg[k]].by = index], reg[k]),
              hit |-> reg[k]]

\* Lines 97-102 for message m, the index-th message framed: the first lock of
\* that name leaves the registry, gets the message's buffer as its result and
\* has its event set; the scan stops there.
Resolve(reg, tab, m, index) ==
    LET k == FirstMatch(reg, tab, m.name)
    IN  IF k = 0
        THEN [reg |-> reg, tab |-> tab, hit |-> 0]
        ELSE [reg |-> Remove(reg, k),
              tab |-> SetEvent([tab EXCEPT ![reg[k]].result = m.buffer,
                                           ![reg[k]].by = index], reg[k]),
              hit |-> reg[k]]

\* --------------------------------------------------------------- read loop

\* Inline with the handshake spawned like any other message.
InlineNever(m) == FALSE

\* Inline with every message awaited in the read loop's own task.
InlineAlways(m) == TRUE

\* Line 104: whether handle_msg is awaited in the read loop's own task.
Inline(m) == m.name = "handshake"

\* LoopTop without run_again: every iteration starts with a receive.
LoopTopReceives(again) == IF ~do_loop THEN "sweep" ELSE "recv"

\* The top of the while loop at line 69, reached without suspension from the
\* end of an iteration; again is run_again as that iteration left it.
LoopTop(again) == IF ~do_loop THEN "sweep" ELSE IF again THEN "parse" ELSE "recv"

\* Iteration with every exception of ClientMessage caught as BufferUnderrun
\* is: the loop goes back to receive after a malformed message.
IterationRecovers(buf) ==
    LET m == ClientMessage(buf, protocol_version)
        index == Len(framed) + 1
        r == Resolve(_locks, lockTab, m, index)
        rest == Advance(buf, m.old_len)
        again == IF rest # <<>> THEN TRUE ELSE run_again
        mm == m @@ [idx |-> index, hit |-> r.hit]
    IN  IF m.kind \in {"underrun", "malformed"}
        THEN /\ data' = buf
             /\ run_again' = FALSE
             /\ pcRead' = "recv"
             /\ UNCHANGED <<msg, _locks, lockTab, framed, dispatched, tasks>>
        ELSE /\ data' = rest
             /\ run_again' = again
             /\ msg' = mm
             /\ _locks' = r.reg
             /\ lockTab' = r.tab
             /\ framed' = Append(framed, mm)
             /\ dispatched' = Append(dispatched, mm)
             /\ tasks' = [tasks EXCEPT ![index].pc = "run"]
             /\ pcRead' = IF Inline(mm) THEN "inline" ELSE LoopTop(again)

\* Lines 87-107 on the accumulation buffer buf: parse one message. On
\* BufferUnderrun the loop goes back to receive; any other exception leaves
\* serve_loop; on success data is trimmed, the registry is scanned and the
\* message is dispatched.
Iteration(buf) ==
    LET m == ClientMessage(buf, protocol_version)
        index == Len(framed) + 1
        r == Resolve(_locks, lockTab, m, index)
        rest == Advance(buf, m.old_len)
        again == IF rest # <<>> THEN TRUE ELSE run_again
        mm == m @@ [idx |-> index, hit |-> r.hit]
    IN  CASE m.kind = "underrun" ->
               /\ data' = buf
               /\ run_again' = FALSE
               /\ pcRead' = "recv"
               /\ UNCHANGED <<msg, _locks, lockTab, framed, dispatched, tasks>>
          [] m.kind = "malformed" ->
               /\ data' = buf
               /\ pcRead' = "raised"
               /\ UNCHANGED <<run_again, msg, _locks, lockTab, framed, dispatched,
                              tasks>>
          [] OTHER ->
               /\ data' = rest
               /\ run_again' = again
               /\ msg' = mm
               /\ _locks' = r.reg
               /\ lockTab' = r.tab
               /\ framed' = Append(framed, mm)
               /\ dispatched' = Append(dispatched, mm)
               /\ tasks' = [tasks EXCEPT ![index].pc = "run"]
               /\ pcRead' = IF Inline(mm) THEN "inline" ELSE LoopTop(again)

\* Lines 72, 85-107: receive_some returns n bytes, which are decrypted and
\* appended to data; the iteration goes on with the parse.
ReadReceive ==
    /\ pcRead = "recv"
    /\ \E n \in 1..Min(ChunkSize, Len(Wire) - rpos) :
          /\ cipher' = [cipher EXCEPT !.dec = @ + n]
          /\ rpos' = rpos + n
          /\ Iteration(data \o Decrypt(cipher.dec, SubSeq(Wire, rpos + 1, rpos + n)))
    /\ UNCHANGED <<sent, i, do_loop, messages, failed, enqueued, atClose>>
    /\ UNCHANGED <<writeVars, connVars, cancelled>>

\* Lines 70, 87-107: run_again is set; the iteration parses without receiving.
ReadParse ==
    /\ pcRead = "parse"
    /\ Iteration(data)
    /\ UNCHANGED <<peerVars, cipher, i, do_loop, messages, failed, enqueued, atClose>>
    /\ UNCHANGED <<writeVars, connVars, cancelled>>

\* Lines 72-83, 109: the peer wrote all it had and closed: receive_some
\* returns b"" or raises ConnectionError; do_loop becomes false and the loop
\* is left for the sweep.
ReadClose ==
    /\ pcRead = "recv"
    /\ rpos = Len(Wire)
    /\ do_loop' = FALSE
    /\ i' = 1
    /\ pcRead' = "sweep"
    /\ atClose' = {_locks[k] : k \in 1..Len(_locks)}
    /\ UNCHANGED <<peerVars, cipher, data, run_again, msg, messages,
                   _locks, lockTab, tasks, failed, enqueued, framed, dispatched>>
    /\ UNCHANGED <<writeVars, connVars, cancelled>>

\* Line 105: the awaited handle_msg returned.
ReadInlineDone ==
    /\ pcRead = "inline"
    /\ tasks[msg.idx].pc = "done"
    /\ pcRead' = LoopTop(run_again)
    /\ UNCHANGED <<peerVars, cipher, data, run_again, msg, i, do_loop,
                   messages, _locks, lockTab, tasks, failed, enqueued>>
    /\ UNCHANGED <<writeVars, connVars, histVars, cancelled>>

\* ReadSweep passing over a lock without setting its event.
ReadSweepSkip ==
    /\ pcRead = "sweep"
    /\ i <= Len(_locks)
    /\ i' = i + 1
    /\ UNCHANGED <<peerVars, cipher, data, run_again, msg, pcRead, do_loop,
                   messages, _locks, lockTab, tasks, failed, enqueued>>
    /\ UNCHANGED <<writeVars, connVars, histVars, cancelled>>

\* Lines 109-110: the sweep sets the event of the next lock of the registry.
ReadSweep ==
    /\ pcRead = "sweep"
    /\ i <= Len(_locks)
    /\ lockTab' = SetEvent(lockTab, _locks[i])
    /\ i' = i + 1
    /\ UNCHANGED <<peerVars, cipher, data, run_again, msg, pcRead, do_loop,
                   messages, _locks, tasks, failed, enqueued>>
    /\ UNCHANGED <<writeVars, connVars, histVars, cancelled>>

\* Lines 111-117: the sweep is over; a connection in state play removes its
\* player from the registry; the task group then waits for its tasks.
ReadCleanup ==
    /\ pcRead = "sweep"
    /\ i > Len(_locks)
    /\ players' = IF protocol_state = "play" THEN FALSE ELSE players
    /\ pcRead' = "join"
    /\ UNCHANGED <<peerVars, cipher, data, run_again, msg, i, do_loop,
                   messages, _locks, lockTab, tasks, failed, enqueued>>
    /\ UNCHANGED <<writeVars, protocol_state, protocol_version, histVars, cancelled>>

\* Line 68: the task group is left once every spawned handle_msg returned.
ReadJoin ==
    /\ pcRead = "join"
    /\ \A t \in 1..MaxMsgs : tasks[t].pc \in {"none", "done"}
    /\ pcRead' = "done"
    /\ UNCHANGED <<peerVars, cipher, data, run_again, msg, i, do_loop,
                   messages, _locks, lockTab, tasks, failed, enqueued>>
    /\ UNCHANGED <<writeVars, connVars, histVars, cancelled>>

\* ---------------------------------------------------------------- handlers
\* What PacketHandler.decode and EventHandler.handle_event do for a message
\* is outside this class; a running handle_msg may take any of the steps
\* below, in any order, through the interface the connection offers.

\* The name handlers wait for.
WaitName == "encryption_response"

Running(t) == t \in 1..MaxMsgs /\ tasks[t].pc = "run"

\* send_packet on a cipher with one keystream position shared by encrypt
\* and decrypt.
send_packetSharedStream(packet) ==
    /\ messages' = Append(messages, Encrypt(cipher.enc, packet))
    /\ cipher' = [dec |-> cipher.dec + Len(packet), enc |-> cipher.enc + Len(packet)]
    /\ enqueued' = Append(enqueued, Encrypt(cipher.enc, packet))

\* send_packet putting the encrypted buffer at the head of the queue.
send_packetAtHead(packet) ==
    /\ messages' = <<Encrypt(cipher.enc, packet)>> \o messages
    /\ cipher' = [cipher EXCEPT !.enc = @ + Len(packet)]
    /\ enqueued' = Append(enqueued, Encrypt(cipher.enc, packet))

\* Line 153: self.messages.append(self.cipher.encrypt(packet))
send_packet(packet) ==
    /\ messages' = Append(messages, Encrypt(cipher.enc, packet))
    /\ cipher' = [cipher EXCEPT !.enc = @ + Len(packet)]
    /\ enqueued' = Append(enqueued, Encrypt(cipher.enc, packet))

\* A handler calls send_packet; the packet is the number of the call.
HandlerSend(t) ==
    /\ Running(t)
    /\ Len(enqueued) < MaxSends
    /\ send_packet(<<Len(enqueued) + 1>>)
    /\ UNCHANGED <<peerVars, readVars, _locks, lockTab, tasks, failed, cancelled>>
    /\ UNCHANGED <<writeVars, connVars, histVars>>

\* Lines 140-147: a handler calls wait_for_packet; the lock is appended to
\* the registry and the task suspends on its event.
HandlerWait(t) ==
    /\ Running(t)
    /\ Len(lockTab) < MaxLocks
    /\ lockTab' = Append(lockTab, [name |-> WaitName, lock |-> FALSE,
                                   result |-> None, by |-> 0, sets |-> 0,
                                   owner |-> t, regAt |-> Len(framed),
                                   returned |-> FALSE, ret |-> None])
    /\ _locks' = Append(_locks, Len(lockTab) + 1)
    /\ tasks' = [tasks EXCEPT ![t].pc = "wait", ![t].lock = Len(lockTab) + 1]
    /\ UNCHANGED <<peerVars, cipher, readVars, messages, failed, enqueued, cancelled>>
    /\ UNCHANGED <<writeVars, connVars, histVars>>

\* Lines 147-150: the event is set; wait_for_packet returns lock["result"].
HandlerResume(t) ==
    /\ t \in 1..MaxMsgs
    /\ tasks[t].pc = "wait"
    /\ lockTab[tasks[t].lock].lock
    /\ lockTab' = [lockTab EXCEPT ![tasks[t].lock].returned = TRUE,
                                  ![tasks[t].lock].ret = lockTab[tasks[t].lock].result]
    /\ tasks' = [tasks EXCEPT ![t].pc = "run", ![t].lock = 0]
    /\ UNCHANGED <<peerVars, cipher, readVars, messages, _locks, failed, enqueued,
                   cancelled>>
    /\ UNCHANGED <<writeVars, connVars, histVars>>

\* The handler of a handshake sets the protocol version the peer announced
\* and leaves state init.
HandlerHandshake(t) ==
    /\ Running(t)
    /\ dispatched[t].name = "handshake"
    /\ protocol_state = "init"
    /\ Len(dispatched[t].buffer) > 0
    /\ protocol_version' = dispatched[t].buffer[1]
    /\ protocol_state' = "login"
    /\ tasks' = [tasks EXCEPT ![t].setVer = dispatched[t].buffer[1]]
    /\ UNCHANGED <<peerVars, cipher, readVars, messages, _locks, lockTab, failed,
                   enqueued, cancelled, players>>
    /\ UNCHANGED <<writeVars, histVars>>

\* The handler of a later message completes the login: state play, and the
\* player enters the registry.
HandlerLogin(t) ==
    /\ Running(t)
    /\ dispatched[t].name # "handshake"
    /\ protocol_state = "login"
    /\ protocol_state' = "play"
    /\ players' = TRUE
    /\ UNCHANGED <<peerVars, cipher, readVars, messages, _locks, lockTab, tasks,
                   failed, enqueued, cancelled, protocol_version>>
    /\ UNCHANGED <<writeVars, histVars>>

\* Lines 120-126: handle_msg returns.
HandlerReturn(t) ==
    /\ Running(t)
    /\ tasks' = [tasks EXCEPT ![t].pc = "done"]
    /\ UNCHANGED <<peerVars, cipher, readVars, messages, _locks, lockTab, failed,
                   enqueued, cancelled>>
    /\ UNCHANGED <<writeVars, connVars, histVars>>

\* HandlerRaise without the except clause of line 127: the exception leaves
\* handle_msg and, through the task group, serve_loop.
HandlerRaiseEscapes(t) ==
    /\ Running(t)
    /\ Cardinality(failed) < MaxFail
    /\ failed' = failed \cup {t}
    /\ tasks' = [tasks EXCEPT ![t].pc = "done"]
    /\ pcRead' = "raised"
    /\ UNCHANGED <<peerVars, cipher, data, run_again, msg, i, do_loop, messages,
                   _locks, lockTab, enqueued, cancelled>>
    /\ UNCHANGED <<writeVars, connVars, histVars>>

\* Lines 127-128: decode, the awaited decode or handle_event raised; the
\* exception is caught and logged, and handle_msg returns.
HandlerRaise(t) ==
    /\ Running(t)
    /\ Cardinality(failed) < MaxFail
    /\ failed' = failed \cup {t}
    /\ tasks' = [tasks EXCEPT ![t].pc = "done"]
    /\ UNCHANGED <<peerVars, cipher, readVars, messages, _locks, lockTab,
                   enqueued, cancelled>>
    /\ UNCHANGED <<writeVars, connVars, histVars>>

\* -------------------------------------------------------------- write loop

\* Pop taking the buffer appended last.
PopLast(q) == [item |-> q[Len(q)], rest |-> SubSeq(q, 1, Len(q) - 1)]

\* self.messages.pop(0)
Pop(q) == [item |-> Head(q), rest |-> Tail(q)]

\* WriteTop looking at the queue before do_loop: a non-empty queue is
\* popped whatever do_loop is.
WriteTopIgnoresFlag(q) ==
    IF q # <<>>
    THEN /\ pcWrite' = "sending"
         /\ messages' = Pop(q).rest
         /\ out' = Pop(q).item
    ELSE IF ~do_loop
    THEN /\ pcWrite' = "done"
         /\ messages' = q
         /\ out' = out
    ELSE /\ pcWrite' = "loop"
         /\ messages' = q
         /\ out' = out

\* Lines 131-135 from the top of the loop with queue q: write_loop returns
\* when do_loop is false, pops the head of a non-empty queue and starts
\* send_all, and sleeps otherwise.
WriteTop(q) ==
    IF ~do_loop
    THEN /\ pcWrite' = "done"
         /\ messages' = q
         /\ out' = out
    ELSE IF q # <<>>
    THEN /\ pcWrite' = "sending"
         /\ messages' = Pop(q).rest
         /\ out' = Pop(q).item
    ELSE /\ pcWrite' = "loop"
         /\ messages' = q
         /\ out' = out

\* Lines 131-135, after the start or a sleep: the queue is not empty.
WritePop ==
    /\ pcWrite = "loop"
    /\ do_loop
    /\ messages # <<>>
    /\ WriteTop(messages)
    /\ UNCHANGED <<peerVars, cipher, readVars, _locks, lockTab, tasks, failed,
                   enqueued, transmitted, cancelled>>
    /\ UNCHANGED <<connVars, histVars>>

\* Line 131, after the start or a sleep: do_loop is false.
WriteExit ==
    /\ pcWrite = "loop"
    /\ ~do_loop
    /\ WriteTop(messages)
    /\ UNCHANGED <<peerVars, cipher, readVars, _locks, lockTab, tasks, failed,
                   enqueued, transmitted, cancelled>>
    /\ UNCHANGED <<connVars, histVars>>

\* Line 135: send_all returns, and the loop goes to its top.
WriteSent ==
    /\ pcWrite = "sending"
    /\ transmitted' = Append(transmitted, out)
    /\ WriteTop(messages)
    /\ UNCHANGED <<peerVars, cipher, readVars, _locks, lockTab, tasks, failed,
                   enqueued, cancelled>>
    /\ UNCHANGED <<connVars, histVars>>

\* Line 135: send_all raises; the exception leaves write_loop.
WriteFail ==
    /\ pcWrite = "sending"
    /\ pcWrite' = "raised"
    /\ UNCHANGED <<peerVars, cipher, readVars, messages, _locks, lockTab, tasks,
                   failed, enqueued, out, transmitted, cancelled>>
    /\ UNCHANGED <<connVars, histVars>>

\* ------------------------------------------------------------ cancellation

\* Lines 61-63, 68: an exception that leaves serve_loop or write_loop cancels
\* the task group of serve, and with it the task group of the dispatch
\* tasks: every task still suspended is cancelled.
Cancel ==
    /\ pcRead = "raised" \/ pcWrite = "raised"
    /\ ~cancelled
    /\ cancelled' = TRUE
    /\ pcRead' = IF pcRead \in {"raised", "done"} THEN pcRead ELSE "cancelled"
    /\ pcWrite' = IF pcWrite \in {"raised", "done"} THEN pcWrite ELSE "cancelled"
    /\ tasks' = [t \in 1..MaxMsgs |->
                   IF tasks[t].pc \in {"run", "wait"}
                   THEN [tasks[t] EXCEPT !.pc = "cancelled"] ELSE tasks[t]]
    /\ UNCHANGED <<peerVars, cipher, data, run_again, msg, i, do_loop,
                   messages, _locks, lockTab, failed, enqueued, out, transmitted>>
    /\ UNCHANGED <<connVars, histVars>>

\* ----------------------------------------------------------- specification

ReadLoop ==
    \/ ReadReceive
    \/ ReadParse
    \/ ReadClose
    \/ ReadInlineDone
    \/ ReadSweep
    \/ ReadCleanup
    \/ ReadJoin

WriteLoop ==
    \/ WritePop
    \/ WriteExit
    \/ WriteSent
    \/ WriteFail

Handler(t) ==
    \/ HandlerSend(t)
    \/ HandlerWait(t)
    \/ HandlerResume(t)
    \/ HandlerHandshake(t)
    \/ HandlerLogin(t)
    \/ HandlerReturn(t)
    \/ HandlerRaise(t)

Next ==
    \/ ReadLoop
    \/ WriteLoop
    \/ \E t \in 1..MaxMsgs : Handler(t)
    \/ Cancel

Spec == Init /\ [][Next]_vars

\* ------------------------------------------------------------------ claims

IsPrefix(a, b) == Len(a) <= Len(b) /\ SubSeq(b, 1, Len(a)) = a

\* Every message of the peer has an ident the protocol knows.
AllValid == \A k \in 1..Len(sent) : sent[k].ident # BadIdent

\* The read loop is suspended in receive_some, or has left the while loop
\* through the peer close.
ReadIdle == pcRead \in {"recv", "sweep", "join", "done"}

\* The lock ids in the registry.
Registry == {_locks[k] : k \in 1..Len(_locks)}

\* Task t is suspended in wait_for_packet on an event that is not set.
Suspended(t) == tasks[t].pc = "wait" /\ ~lockTab[tasks[t].lock].lock

\* C1: whatever the split of the wire bytes into chunks, the messages handed
\* to handle_msg are at every moment a prefix of the messages sent, in order,
\* each once; and when the messages sent are all valid, every byte has been
\* received and the read loop is back in receive (or has seen the close),
\* they are the whole sequence sent.
C1_FramingCorrect ==
    /\ Len(dispatched) <= Len(sent)
    /\ \A k \in 1..Len(dispatched) :
          /\ dispatched[k].idx = k
          /\ dispatched[k].ident = sent[k].ident
          /\ dispatched[k].buffer = sent[k].payload
    /\ (AllValid /\ rpos = Len(Wire) /\ ReadIdle) => Len(dispatched) = Len(sent)

\* C1 witness: two or more valid messages were sent and all are dispatched.
C1_Witness ==
    /\ AllValid
    /\ Len(sent) >= 2
    /\ rpos = Len(Wire)
    /\ pcRead = "recv"
    /\ Len(dispatched) = Len(sent)

\* C2: the buffers send_all completed are a prefix of the buffers send_packet
\* appended, in that order; at most one buffer is in send_all at a time, and
\* it is the one that follows the buffers already sent.
C2_OutboundOrder ==
    /\ IsPrefix(transmitted, enqueued)
    /\ pcWrite = "sending" => enqueued = transmitted \o <<out>> \o messages
    /\ pcWrite \in {"loop", "done"} => enqueued = transmitted \o messages

\* C2 witness: two buffers were sent.
C2_Witness == Len(transmitted) >= 2 /\ transmitted = enqueued

\* C3: a message that resolved a waiter is never passed to handle_msg.
C3_MatchedNotDispatched ==
    \A k \in 1..Len(dispatched) : dispatched[k].hit = 0

\* C4: no wait_for_packet call stays suspended forever, a call made by a
\* dispatch task after the read loop left its while loop included: while
\* such a call is suspended on an unset event, some task can still take a
\* step.
C4_LateWaiterResolved ==
    \A t \in 1..MaxMsgs :
        (pcRead \in {"sweep", "join"} /\ Suspended(t)) => ENABLED Next

C6_FirstMatchingMessage ==
    \A w \in 1..Len(lockTab) :
        LET l == lockTab[w]
        IN  /\ l.by # 0 =>
                  /\ l.by > l.regAt
                  /\ framed[l.by].name = l.name
                  /\ framed[l.by].hit = w
                  /\ l.result = framed[l.by].buffer
            /\ l.by = 0 => l.result = None
            /\ l.returned => l.ret = l.result
            /\ \A j \in (l.regAt + 1)..Len(framed) :
                  (framed[j].name = l.name /\ (l.by = 0 \/ j < l.by))
                      => framed[j].hit \in 1..(w - 1)

\* C6 witness: a wait_for_packet call returned the buffer of a message that
\* was not the first one framed after the registration.
C6_Witness ==
    \E w \in 1..Len(lockTab) :
        /\ lockTab[w].returned
        /\ lockTab[w].by > lockTab[w].regAt + 1
        /\ lockTab[w].ret = framed[lockTab[w].by].buffer

\* The locks a step resolves with a message.
ResolvedNow == {w \in 1..Len(lockTab) : lockTab[w].by = 0 /\ lockTab'[w].by # 0}

\* C7: a step that frames a message resolves one lock when the registry holds
\* a lock of the message's name and none otherwise; that lock is the only one
\* to leave the registry, the others stay pending; and a lock resolved by a
\* message is never resolved by another.
C7Step ==
    /\ Len(framed') > Len(framed) =>
          /\ Cardinality(ResolvedNow) =
                IF \E w \in Registry : lockTab[w].name = framed'[Len(framed')].name
                THEN 1 ELSE 0
          /\ \A w \in ResolvedNow : lockTab'[w].by = Len(framed')
          /\ {_locks'[k] : k \in 1..Len(_locks')} = Registry \ ResolvedNow
          /\ \A w \in Registry \ ResolvedNow : lockTab'[w] = lockTab[w]
    /\ \A w \in 1..Len(lockTab) : lockTab[w].by # 0 => lockTab'[w].by = lockTab[w].by

C7_OneWaiterPerMessage == [][C7Step]_vars

\* C7 witness: a message resolved one lock while another lock of the same
\* name, registered before the message was framed, is still pending.
C7_Witness ==
    \E w1, w2 \in 1..Len(lockTab) :
        /\ lockTab[w1].by # 0
        /\ w2 \in Registry
        /\ ~lockTab[w2].lock
        /\ lockTab[w2].name = lockTab[w1].name
        /\ lockTab[w2].regAt < lockTab[w1].by

\* C8 as stated: the registry never holds a lock whose event is set, and no
\* event is set twice.
C8_RegistryHoldsNoSetWaiter ==
    /\ \A w \in Registry : ~lockTab[w].lock
    /\ \A w \in 1..Len(lockTab) : lockTab[w].sets <= 1

\* C8 amended: a lock resolved by a message is out of the registry; a lock
\* of the registry whose event is set was set by the shutdown sweep (do_loop
\* is false, the result is None); no event is set twice.
C8_RemovedOnMatch ==
    /\ \A w \in 1..Len(lockTab) : lockTab[w].by # 0 => w \notin Registry
    /\ \A w \in Registry :
          lockTab[w].lock => ~do_loop /\ lockTab[w].by = 0 /\ lockTab[w].result = None
    /\ \A w \in 1..Len(lockTab) : lockTab[w].sets <= 1

\* C8 witness: one lock was resolved by a message and another by the sweep.
C8_Witness ==
    /\ \E w \in 1..Len(lockTab) : lockTab[w].by # 0 /\ lockTab[w].lock
    /\ \E w \in Registry : lockTab[w].lock

\* C9: the step in which a handler raises changes nothing but that
\* handle_msg call, which returns: the read loop, do_loop, the write loop and
\* the queue are as before and nothing is cancelled; and a message framed
\* after a handler raised is dispatched.
C9Step ==
    /\ failed' # failed =>
          /\ pcRead' = pcRead
          /\ do_loop' = do_loop
          /\ pcWrite' = pcWrite
          /\ cancelled' = cancelled
          /\ messages' = messages
          /\ \A t \in 1..MaxMsgs :
                IF t \in failed' \ failed THEN tasks'[t].pc = "done"
                                         ELSE tasks'[t] = tasks[t]
    /\ (failed # {} /\ Len(framed') > Len(framed)) =>
          /\ Len(dispatched') = Len(framed')
          /\ tasks'[Len(framed')].pc = "run"

C9_HandlerFailureContained == [][C9Step]_vars

\* C9 witness: the handler of a message raised, a message framed later was
\* dispatched, and both loops are alive.
C9_Witness ==
    \E t \in failed :
        /\ Inline(dispatched[t])
        /\ Len(dispatched) > t
        /\ pcRead = "recv"
        /\ pcWrite \in {"loop", "sending"}

\* C10: while the awaited handle_msg of a handshake runs, the read loop
\* frames and dispatches nothing and leaves data alone; and the message
\* framed after a handshake is framed when that handle_msg call is over,
\* with the protocol version it set (the version of before when it set none).
C10State ==
    \A j \in 2..Len(framed) :
        framed[j - 1].name = "handshake" =>
            /\ tasks[j - 1].pc = "done"
            /\ framed[j].ver = IF tasks[j - 1].setVer # 0 THEN tasks[j - 1].setVer
                                                          ELSE framed[j - 1].ver

C10Step ==
    /\ (pcRead = "inline" /\ tasks[msg.idx].pc # "done") =>
          /\ framed' = framed
          /\ dispatched' = dispatched
          /\ data' = data
    /\ C10State'

C10_HandshakeFirst == [][C10Step]_vars

\* C10 witness: a handshake and the next message came in one chunk; the
\* handshake's handler set the version, and the next message was framed
\* with it, without a receive in between.
C10_Witness ==
    /\ Len(sent) = 2
    /\ Len(framed) = 2
    /\ framed[1].name = "handshake"
    /\ tasks[1].setVer = PeerVersion
    /\ framed[2].ver = PeerVersion
    /\ pcRead = "parse"

\* serve is over: serve_loop and write_loop have returned, and so has every
\* handle_msg call.
ShutDown ==
    /\ pcRead = "done"
    /\ pcWrite = "done"
    /\ \A t \in 1..MaxMsgs : tasks[t].pc \in {"none", "done"}

\* C11: once serve is over with protocol_state play, the player of the
\* connection is not in the player registry, whatever the interleaving of
\* the cleanup of lines 111-117 with the dispatch tasks still running.
C11_PlayerRemovedAtShutdown ==
    (ShutDown /\ protocol_state = "play") => ~players

\* C12: a send_all failure in the write loop makes do_loop false and the
\* shutdown goes on as after a peer close, sweep included: when the write
\* loop has raised and no task can take a step any more, do_loop is false,
\* every lock of the registry has its event set and no wait_for_packet call
\* was left suspended.
C12_SendFailureShutsDown ==
    (pcWrite = "raised" /\ ~ENABLED Next) =>
        /\ ~do_loop
        /\ \A w \in Registry : lockTab[w].lock
        /\ \A t \in 1..MaxMsgs :
              tasks[t].lock # 0 => lockTab[tasks[t].lock].lock

\* C13: after the read loop saw the close, do_loop is false and the read
\* loop is in none of receive, parse and dispatch; and, no send having
\* failed, the run does not stop before serve_loop and write_loop have both
\* returned.
C13_CloseEndsServe ==
    ~do_loop =>
        /\ pcRead \notin {"recv", "parse", "inline"}
        /\ rpos = Len(Wire)
        /\ (~cancelled /\ pcWrite # "raised" /\ ~ENABLED Next) =>
              (pcRead = "done" /\ pcWrite = "done")

\* The positions of the messages of unknown ident the peer sends.
BadAt == {k \in 1..Len(sent) : sent[k].ident = BadIdent}

\* C14: a malformed message is not recovered from. The exception leaves
\* serve_loop at the first message of unknown ident: the messages before it
\* were framed and dispatched, that message and the ones after it never are,
\* and nothing more is received; the read loop never goes back to receive,
\* nor leaves the while loop normally, with a malformed message at the head
\* of the buffer; and once serve is cancelled the write loop has stopped
\* with it, and so has every dispatch task.
C14State ==
    /\ pcRead = "raised" =>
          \E b \in BadAt :
              /\ \A j \in BadAt : b <= j
              /\ Len(framed) = b - 1
              /\ Len(dispatched) = b - 1
    /\ ClientMessage(data, protocol_version).kind = "malformed" =>
          pcRead \notin {"recv", "sweep", "join", "done"}
    /\ (pcRead = "raised" /\ cancelled) =>
          /\ pcWrite \in {"cancelled", "raised"}
          /\ \A t \in 1..MaxMsgs : tasks[t].pc \notin {"run", "wait"}

C14Step ==
    /\ pcRead = "raised" =>
          /\ pcRead' = "raised"
          /\ framed' = framed
          /\ dispatched' = dispatched
          /\ rpos' = rpos
          /\ data' = data
    /\ (pcRead = "raised" /\ cancelled) =>
          (transmitted' = transmitted /\ messages' = messages)
    /\ C14State'

C14_MalformedIsFatal == [][C14Step]_vars

\* C14 witness: a malformed message came after a dispatched one and before
\* another one whose bytes were received too; serve was cancelled and the
\* write loop with it.
C14_Witness ==
    /\ pcRead = "raised"
    /\ cancelled
    /\ pcWrite = "cancelled"
    /\ Len(dispatched) = 1
    /\ Len(sent) = 3
    /\ sent[3].ident # BadIdent
    /\ rpos = Len(Wire)

\* C15: the read loop waits for no handler but a handshake's. The step that
\* frames a message of another name starts its handle_msg call as a task and
\* leaves the read loop at the top of its loop, in receive or about to
\* parse; the read loop is suspended on a handle_msg call only for a
\* handshake; and no step of a dispatch task (returning, raising, suspending
\* in wait_for_packet or staying there) moves a read loop that is in
\* receive or about to parse.
C15Step ==
    /\ (Len(framed') > Len(framed) /\ framed'[Len(framed')].name # "handshake") =>
          /\ dispatched' = Append(dispatched, framed'[Len(framed')])
          /\ tasks'[Len(framed')].pc = "run"
          /\ pcRead' \in {"recv", "parse"}
    /\ pcRead' = "inline" => msg'.name = "handshake"
    /\ (pcRead \in {"recv", "parse"} /\ tasks' # tasks /\ framed' = framed) =>
          (pcRead' = pcRead \/ cancelled')

C15_DispatchDoesNotBlock == [][C15Step]_vars

\* C15 witness: a dispatch task is suspended in wait_for_packet on an unset
\* event, another one has not returned, and a message framed after the first
\* one suspended was dispatched, with the read loop back in receive.
C15_Witness ==
    \E t, u \in 1..MaxMsgs :
        /\ Suspended(t)
        /\ dispatched[t].name # "handshake"
        /\ u > t
        /\ tasks[u].pc = "run"
        /\ Len(dispatched) > u
        /\ lockTab[tasks[t].lock].regAt < u
        /\ pcRead = "recv"
        /\ do_loop

\* C16: the framer is never invoked on an empty buffer: the read loop is
\* never about to parse, without a receive, with data empty.
C16_NoParseOnEmptyBuffer == pcRead = "parse" => data # <<>>

\* C17 as stated: only steps of the read loop change the accumulation buffer
\* or the cipher state.
C17_ReadLoopOnlyWriter ==
    [][(data' # data \/ cipher' # cipher) => (ReadReceive \/ ReadParse)]_vars

\* C17 amended: only steps of the read loop change the accumulation buffer
\* or the decrypt side of the cipher; the encrypt side is changed by
\* send_packet, and only by it, by the length of the packet; the write loop
\* and wait_for_packet change neither.
C17Step ==
    /\ (data' # data \/ cipher'.dec # cipher.dec) => (ReadReceive \/ ReadParse)
    /\ cipher'.enc # cipher.enc =>
          /\ \E t \in 1..MaxMsgs : HandlerSend(t)
          /\ Len(enqueued') = Len(enqueued) + 1
          /\ cipher'.enc = cipher.enc + Len(enqueued'[Len(enqueued')])
    /\ (WriteLoop \/ \E t \in 1..MaxMsgs : HandlerWait(t) \/ HandlerResume(t)) =>
          (cipher' = cipher /\ data' = data)

C17_CipherWriters == [][C17Step]_vars

\* C17 witness: bytes were decrypted into the buffer by the read loop and a
\* packet was encrypted by a handler.
C17_Witness == cipher.dec > 0 /\ cipher.enc > 0 /\ data # <<>>

\* The buffers of bufs joined, as the peer receives them.
RECURSIVE Flat(_)
Flat(bufs) == IF bufs = <<>> THEN <<>> ELSE Head(bufs) \o Flat(Tail(bufs))

\* The packets of the first n send_packet calls, joined.
Packets(n) == [k \in 1..n |-> k]

\* C18: the buffers go through the cipher in the order they are queued and
\* sent: the buffers appended, joined, decrypt on the peer's side to the
\* packets in call order, the encryptor has advanced by exactly their bytes,
\* and so do the buffers sent followed by the one in send_all and the ones
\* of the queue.
C18_CipherOrderIsQueueOrder ==
    /\ Decrypt(0, Flat(enqueued)) = Packets(Len(enqueued))
    /\ cipher.enc = Len(Flat(enqueued))
    /\ Decrypt(0, Flat(transmitted)) = Packets(Len(transmitted))
    /\ pcWrite = "sending" =>
          Decrypt(0, Flat(transmitted \o <<out>> \o messages)) = Packets(Len(enqueued))
    /\ pcWrite \in {"loop", "done"} =>
          Decrypt(0, Flat(transmitted \o messages)) = Packets(Len(enqueued))

\* C18 witness: two handlers were running, two packets were queued at once
\* and both were sent.
C18_Witness ==
    /\ Len(messages) = 0
    /\ Len(transmitted) = 2
    /\ cipher.enc = 2
    /\ tasks[1].pc = "run"
    /\ tasks[2].pc = "run"
    /\ pcWrite = "loop"

\* C19: the read loop is in receive only with a buffer that holds no
\* complete message (an underrun, the empty buffer included), and a parse
\* that leaves bytes is followed by a parse without a receive: run_again is
\* set when the loop is about to parse, and when bytes are left while a
\* handshake's handle_msg is awaited.
C19_NoReceiveOverFullMessage ==
    /\ pcRead = "recv" => ClientMessage(data, protocol_version).kind = "underrun"
    /\ pcRead = "parse" => run_again
    /\ (pcRead = "inline" /\ data # <<>>) => run_again

\* C19 witness: a message was framed and the read loop is about to parse the
\* complete message left in the buffer.
C19_Witness ==
    /\ pcRead = "parse"
    /\ Len(framed) >= 1
    /\ ClientMessage(data, protocol_version).kind = "ok"

\* C20: once do_loop is false the write loop pops nothing and starts no
\* send: the queue only grows; a send in progress completes and the loop
\* returns; nothing else is sent, and the loop, once returned, stays so.
C20Step ==
    ~do_loop =>
        /\ IsPrefix(messages, messages')
        /\ pcWrite' = "sending" => (pcWrite = "sending" /\ out' = out)
        /\ transmitted' # transmitted =>
              /\ pcWrite = "sending"
              /\ transmitted' = Append(transmitted, out)
              /\ pcWrite' = "done"
        /\ pcWrite = "done" => pcWrite' = "done"

C20_NoSendAfterClose == [][C20Step]_vars

\* C20 witness: serve is over; one buffer was sent and another one, appended
\* by a handler, is left in the queue.
C20_Witness ==
    /\ ShutDown
    /\ ~do_loop
    /\ Len(transmitted) = 1
    /\ Len(messages) = 1

====
